---- MODULE Spec2Model ----
(***************************************************************************)
(* Hybrid retrieval and incremental ingestion of the RAG monolith:         *)
(* RAGSystem, Ingestor, RetrieverProvider and ChainProvider, driven by the *)
(* /upload and /chat handlers of main.py.                                  *)
(*                                                                         *)
(* Objects the code creates (BM25 retrievers, ensemble retrievers, chains) *)
(* live in heaps indexed by creation order; a reference is an index, 0 is  *)
(* None (for bm25_retriever) or the bare Pinecone retriever (for a         *)
(* retriever reference).  The Pinecone index is the set of stored chunks.  *)
(* A chunk is <<r, k>>: the k-th Document object split by upload r.        *)
(***************************************************************************)
EXTENDS Integers, Sequences, FiniteSets, TLC

\* ---- bounds of the model ----
MaxUploads == 2
MaxChats == 1
MaxChunks == 2
MaxDocs == 2
MaxMsgs == 4

\* ---- program constants (tenths) ----
BM25_WEIGHT == 4
PINECONE_WEIGHT == 6

Uploads == 1..MaxUploads
Chats == (MaxUploads + 1)..(MaxUploads + MaxChats)
Reqs == Uploads \cup Chats
Docs == 1..MaxDocs

VARIABLES
    pc,                  \* position of each request's handler ("pending": not started)
    loop,                \* request whose handler body occupies the event loop, 0 if none
    vector_index,        \* chunks stored in the Pinecone index
    all_docs_in_memory,  \* RetrieverProvider.all_docs_in_memory
    bm25_objs,           \* heap of BM25Retriever objects: the docs each one holds
    bm25_retriever,      \* RetrieverProvider.bm25_retriever (0 = None)
    ensemble_objs,       \* heap of EnsembleRetriever objects
    ensemble_retriever,  \* RetrieverProvider.ensemble_retriever (0 = pinecone_retriever)
    chain_objs,          \* heap of retrieval chains: the retriever each one wraps
    chain,               \* ChainProvider.chain
    cp_retriever,        \* ChainProvider.retriever
    split_docs,          \* per upload: the chunks split from its document
    built,               \* per upload: the BM25Retriever just built (local of the rebuild)
    new_retriever,       \* per upload: local new_retriever of upload_document
    qchain,              \* per chat: local chain of ask_question
    response,            \* per request: value returned (chunk count / retrieved docs)
    err,                 \* per request: exception raised, "none" if none
    pre,                 \* per upload: engine state when the call started (history)
    post,                \* per upload: the chain published when the call returned (history)
    doc,                 \* per upload: the document (source id and text) in its file
    splitter_rejects,    \* the text splitter rejects config.CHUNK_SIZE / CHUNK_OVERLAP
    ext,                 \* per upload: the extension of file.filename
    query,               \* per chat: query.query
    initialized,         \* rag_system is not None
    data_dir,            \* names of the files in config.DATA_DIR
    \* ---- /ws/chat of main.py: one connection ----
    ws_pc,               \* "receive" (awaiting a message), "send" (awaiting a send), "terminated"
    ws_count,            \* messages received on the connection
    file_open,           \* not file_handle.closed
    file_exists,         \* os.path.exists(temp_file_path)
    file_content,        \* what the temp file holds: the received byte messages written to it
    ws_todo,             \* messages the END being processed has still to send
    ws_out,              \* messages sent for the last END
    ws_heard,            \* what the last END's audio holds ("none" before the first END)
    ws_audio,            \* the temp file's content at the last END (history)
    recv_since,          \* byte messages received since the previous END (history)
    \* ---- /ws/chat of the query service and the STT service behind it ----
    qs_pc,               \* "receive", "send", "closed"
    qs_count,            \* messages received on the connection
    qs_todo,             \* messages the chunk being processed has still to send
    qs_out,              \* messages sent for the last chunk
    qs_called,           \* process_query was called for the last chunk
    qs_send_raised,      \* a send of the last chunk raised
    qs_end,              \* why the loop ended ("none" while it runs)
    stt_provider,        \* what STTProvider.transcribe did for the last request
    stt_return           \* what Transcribe returned for the last request

vars == <<pc, loop, vector_index, all_docs_in_memory, bm25_objs, bm25_retriever,
          ensemble_objs, ensemble_retriever, chain_objs, chain, cp_retriever,
          split_docs, built, new_retriever, qchain, response, err, pre, post,
          doc, splitter_rejects, ext, query, initialized, data_dir,
          ws_pc, ws_count, file_open, file_exists, file_content, ws_todo, ws_out,
          ws_heard, ws_audio, recv_since,
          qs_pc, qs_count, qs_todo, qs_out, qs_called, qs_send_raised, qs_end,
          stt_provider, stt_return>>

engine == <<vector_index, all_docs_in_memory, bm25_objs, bm25_retriever,
            ensemble_objs, ensemble_retriever, chain_objs, chain, cp_retriever>>
lexical == <<all_docs_in_memory, bm25_objs, bm25_retriever,
             ensemble_objs, ensemble_retriever>>
chains == <<chain_objs, chain, cp_retriever>>
locals == <<split_docs, built, new_retriever, qchain>>
history == <<pre, post>>
\* What the process is given and never assigns: the uploaded files, the configuration.
inputs == <<doc, splitter_rejects, ext, query, initialized>>
\* The state of the /ws/chat connection of main.py.
ws == <<ws_pc, ws_count, file_open, file_exists, file_content, ws_todo, ws_out,
        ws_heard, ws_audio, recv_since>>
\* What the /upload and /chat handlers and the engine never touch.
\* The state of the query service's /ws/chat connection and of the STT call.
qs == <<qs_pc, qs_count, qs_todo, qs_out, qs_called, qs_send_raised, qs_end,
        stt_provider, stt_return>>
others == <<inputs, ws, qs>>
\* The state of the /upload and /chat requests and of the engine.
http == <<pc, loop, engine, locals, response, err, history, data_dir>>

\* ---- helpers ----
Range(s) == {s[i] : i \in DOMAIN s}

\* The Document objects split from upload r's file when it yields n chunks.
ChunksOf(r, n) == [k \in 1..n |-> <<r, k>>]

NoResponse == [kind |-> "none"]

\* str.strip on the texts of the model.
Strip(t) == IF t \in {"", " "} THEN "" ELSE t

\* str.lower on the extensions the uploads carry.
Lower(e) == IF e = "TXT" THEN "txt" ELSE e

\* The extensions of the uploaded file names and the texts of the questions.
Exts == {"txt", "TXT", "pdf"}
Queries == {"", " ", "what is bm25"}

\* file.filename of upload r: the name of its document and its extension.
FileName(r) == <<doc[r], ext[r]>>

\* Variant: the extension is compared as it is written.
IsTxtExact(name) == name[2] = "txt"

\* file.filename.lower().endswith(".txt")
IsTxt(name) == Lower(name[2]) = "txt"

\* Every request is one the endpoints serve, on a RAGSystem that was built.
ValidRequests ==
    /\ ext = [r \in Uploads |-> "txt"]
    /\ query = [r \in Chats |-> "what is bm25"]
    /\ initialized = TRUE

\* The chunks an earlier process left in the Pinecone index (the index is an
\* external service that outlives the process; upload 0 is not of this process).
PriorIndex == {<<0, 1>>}

\* split_documents is a function of the document and the fixed configuration:
\* the chunk counts upload r can obtain, given the earlier splits of its document.
SplitCounts(r) ==
    LET same == {r2 \in Uploads \ {r} :
                    /\ doc[r2] = doc[r]
                    /\ pc[r2] \notin {"pending", "load"}
                    /\ err[r2] \notin {"save", "load", "split"}}
    IN IF same = {} THEN 0..MaxChunks ELSE {Len(split_docs[r2]) : r2 \in same}

\* The lexical snapshot (0 = none) a retriever reference reads from.
SnapshotOf(ret) ==
    IF ret = 0 THEN 0
    ELSE LET first == ensemble_objs[ret].retrievers[1]
         IN IF first.type = "bm25" THEN first.id ELSE 0

\* The docs the lexical side of a retriever reference can return.
LexicalDocs(ret) ==
    IF SnapshotOf(ret) = 0 THEN {} ELSE Range(bm25_objs[SnapshotOf(ret)])

\* Engine state as seen by a caller (recorded when an upload starts).
Observed ==
    [corpus |-> all_docs_in_memory, bm25 |-> bm25_retriever,
     snapshots |-> bm25_objs, ensemble |-> ensemble_retriever,
     chain |-> chain, vector |-> vector_index]

\* ---- /ws/chat of main.py after accept() and open(temp_file_path, "wb") ----
Accepted ==
    /\ ws_pc = "receive"
    /\ ws_count = 0
    /\ file_open = TRUE
    /\ file_exists = TRUE
    /\ file_content = <<>>
    /\ ws_todo = <<>>
    /\ ws_out = <<>>
    /\ ws_heard = "none"
    /\ ws_audio = <<>>
    /\ recv_since = <<>>

\* ---- /ws/chat of the query service after accept() ----
QsAccepted ==
    /\ qs_pc = "receive"
    /\ qs_count = 0
    /\ qs_todo = <<>>
    /\ qs_out = <<>>
    /\ qs_called = FALSE
    /\ qs_send_raised = FALSE
    /\ qs_end = "none"
    /\ stt_provider = [kind |-> "none"]
    /\ stt_return = [kind |-> "none"]

\* ---- construction: RAGSystem.__init__ ----
\* The engine's own state after __init__; the requests have not started.
Constructed ==
    /\ pc = [r \in Reqs |-> "pending"]
    /\ loop = 0
    /\ all_docs_in_memory = <<>>
    /\ bm25_objs = <<>>
    /\ bm25_retriever = 0
    /\ ensemble_objs = <<>>
    /\ ensemble_retriever = 0
    /\ chain_objs = <<[retriever |-> 0]>>
    /\ chain = 1
    /\ cp_retriever = 0
    /\ split_docs = [r \in Uploads |-> <<>>]
    /\ built = [r \in Uploads |-> 0]
    /\ new_retriever = [r \in Uploads |-> 0]
    /\ qchain = [r \in Chats |-> 0]
    /\ response = [r \in Reqs |-> NoResponse]
    /\ err = [r \in Reqs |-> "none"]
    /\ pre = [r \in Uploads |-> Observed]
    /\ post = [r \in Uploads |-> 0]
    /\ data_dir = {}
    /\ Accepted
    /\ QsAccepted

\* The Pinecone index is empty and every upload carries a document of its own;
\* the chunking configuration read from the environment may be one the text
\* splitter rejects.
Init ==
    /\ vector_index = {}
    /\ doc = [r \in Uploads |-> r]
    /\ splitter_rejects \in BOOLEAN
    /\ ValidRequests
    /\ Constructed

\* The uploads carry documents drawn from Docs: a document can be uploaded again.
InitReingest ==
    /\ vector_index = {}
    /\ doc \in [Uploads -> Docs]
    /\ splitter_rejects = FALSE
    /\ ValidRequests
    /\ Constructed

\* The process starts on a Pinecone index that an earlier process wrote to.
InitRestart ==
    /\ vector_index = PriorIndex
    /\ doc = [r \in Uploads |-> r]
    /\ splitter_rejects = FALSE
    /\ ValidRequests
    /\ Constructed

\* The requests are any the clients can send, and the RAGSystem may have
\* failed to build when the process started.  One upload at least is not a
\* text file; the requests run in any order, so it is taken to be upload 1.
InitHttp ==
    /\ vector_index = {}
    /\ doc = [r \in Uploads |-> r]
    /\ splitter_rejects = FALSE
    /\ ext \in [Uploads -> Exts]
    /\ ext[1] = "pdf"
    /\ query \in [Chats -> Queries]
    /\ initialized \in BOOLEAN
    /\ Constructed

\* Variant: the handler bodies run on worker threads and interleave freely.
MayRunThreads(r) == TRUE

\* ---- scheduling ----
\* The chats are numbered in the order in which their requests are taken up.
InTurn(r) == \A q \in Chats : q < r => pc[q] # "pending"

\* The handlers are coroutines of one event loop whose bodies call the
\* RAGSystem synchronously and never await: a body runs from its first
\* statement to its return without another body running in between.
MayRun(r) == loop \in {0, r}

\* ---- POST /upload -> RAGSystem.upload_document -> Ingestor.ingest_file ----
UploadBegin(r) ==
    /\ pc[r] = "pending"
    /\ MayRun(r)
    /\ initialized
    /\ IsTxt(FileName(r))
    /\ UNCHANGED others
    /\ \/ /\ data_dir' = data_dir \cup {FileName(r)}
          /\ loop' = r
          /\ pc' = [pc EXCEPT ![r] = "load"]
          /\ pre' = [pre EXCEPT ![r] = Observed]
          /\ UNCHANGED err
       \/ /\ data_dir' \in {data_dir, data_dir \cup {FileName(r)}}
          /\ loop' = 0
          /\ pc' = [pc EXCEPT ![r] = "failed"]
          /\ err' = [err EXCEPT ![r] = "save"]
          /\ UNCHANGED pre
    /\ UNCHANGED <<engine, locals, response, post>>

\* Variant: the zero-chunk early return is missing.
LoadAndSplitNoEarlyReturn(r) ==
    /\ pc[r] = "load"
    /\ MayRun(r)
    /\ UNCHANGED <<others, data_dir>>
    /\ \/ /\ err' = [err EXCEPT ![r] = "load"]
          /\ pc' = [pc EXCEPT ![r] = "raise"]
          /\ UNCHANGED split_docs
       \/ /\ splitter_rejects
          /\ err' = [err EXCEPT ![r] = "split"]
          /\ pc' = [pc EXCEPT ![r] = "raise"]
          /\ UNCHANGED split_docs
       \/ \E n \in SplitCounts(r) :
            /\ ~splitter_rejects
            /\ split_docs' = [split_docs EXCEPT ![r] = ChunksOf(r, n)]
            /\ pc' = [pc EXCEPT ![r] = "store"]
            /\ UNCHANGED err
    /\ UNCHANGED <<loop, engine, built, new_retriever, qchain, response, history>>

\* Steps 1-2: load_document (may raise), split_documents (raises when the
\* splitter rejects the configuration), and the zero-chunk return.
LoadAndSplit(r) ==
    /\ pc[r] = "load"
    /\ MayRun(r)
    /\ UNCHANGED <<others, data_dir>>
    /\ \/ /\ err' = [err EXCEPT ![r] = "load"]
          /\ pc' = [pc EXCEPT ![r] = "raise"]
          /\ UNCHANGED split_docs
       \/ /\ splitter_rejects
          /\ err' = [err EXCEPT ![r] = "split"]
          /\ pc' = [pc EXCEPT ![r] = "raise"]
          /\ UNCHANGED split_docs
       \/ \E n \in SplitCounts(r) :
            /\ ~splitter_rejects
            /\ split_docs' = [split_docs EXCEPT ![r] = ChunksOf(r, n)]
            /\ pc' = [pc EXCEPT ![r] = IF n = 0 THEN "ret" ELSE "store"]
            /\ UNCHANGED err
    /\ UNCHANGED <<loop, engine, built, new_retriever, qchain, response, history>>

\* Variant: chunks are embedded and upserted one at a time, so an embedding
\* failure can follow the upsert of earlier chunks.
AddDocumentsToPineconeInterleaved(r) ==
    /\ pc[r] = "store"
    /\ MayRun(r)
    /\ UNCHANGED <<others, data_dir>>
    /\ \/ \E k \in 0..(Len(split_docs[r]) - 1), e \in {"embedding", "store"} :
            /\ vector_index' = vector_index \cup Range(SubSeq(split_docs[r], 1, k))
            /\ err' = [err EXCEPT ![r] = e]
            /\ pc' = [pc EXCEPT ![r] = "raise"]
       \/ /\ vector_index' = vector_index \cup Range(split_docs[r])
          /\ pc' = [pc EXCEPT ![r] = "extend"]
          /\ UNCHANGED err
    /\ UNCHANGED <<loop, lexical, chains, locals, response, history>>

\* Variant: a failure of the vector store is logged and not re-raised.
AddDocumentsToPineconeSwallow(r) ==
    /\ pc[r] = "store"
    /\ MayRun(r)
    /\ UNCHANGED <<others, data_dir>>
    /\ \E k \in 0..Len(split_docs[r]) :
         vector_index' = vector_index \cup Range(SubSeq(split_docs[r], 1, k))
    /\ pc' = [pc EXCEPT ![r] = "extend"]
    /\ UNCHANGED <<loop, lexical, chains, locals, response, err, history>>

\* Step 3: add_documents_to_pinecone (embeds the chunks, then upserts them).
AddDocumentsToPinecone(r) ==
    /\ pc[r] = "store"
    /\ MayRun(r)
    /\ UNCHANGED <<others, data_dir>>
    /\ \/ /\ err' = [err EXCEPT ![r] = "embedding"]
          /\ pc' = [pc EXCEPT ![r] = "raise"]
          /\ UNCHANGED vector_index
       \/ \E k \in 0..(Len(split_docs[r]) - 1) :
            /\ vector_index' = vector_index \cup Range(SubSeq(split_docs[r], 1, k))
            /\ err' = [err EXCEPT ![r] = "store"]
            /\ pc' = [pc EXCEPT ![r] = "raise"]
       \/ /\ vector_index' = vector_index \cup Range(split_docs[r])
          /\ pc' = [pc EXCEPT ![r] = "extend"]
          /\ UNCHANGED err
    /\ UNCHANGED <<loop, lexical, chains, locals, response, history>>

\* Variant: the BM25 retrievers keep a reference to the corpus list instead of
\* a copy, so extending the corpus extends the docs of every built retriever.
ExtendCorpusAliased(r) ==
    /\ pc[r] = "extend"
    /\ MayRun(r)
    /\ UNCHANGED <<others, data_dir>>
    /\ all_docs_in_memory' = all_docs_in_memory \o split_docs[r]
    /\ bm25_objs' = [i \in DOMAIN bm25_objs |-> all_docs_in_memory']
    /\ pc' = [pc EXCEPT ![r] =
                IF Len(all_docs_in_memory') > 0 THEN "build" ELSE "ret"]
    /\ UNCHANGED <<loop, vector_index, bm25_retriever, ensemble_objs,
                   ensemble_retriever, chains, locals, response, err, history>>

\* Variant: a document whose chunks are already in the corpus is not appended again.
ExtendCorpusDedup(r) ==
    /\ pc[r] = "extend"
    /\ MayRun(r)
    /\ UNCHANGED <<others, data_dir>>
    /\ all_docs_in_memory' =
          IF \E i \in DOMAIN all_docs_in_memory : doc[all_docs_in_memory[i][1]] = doc[r]
          THEN all_docs_in_memory
          ELSE all_docs_in_memory \o split_docs[r]
    /\ pc' = [pc EXCEPT ![r] =
                IF Len(all_docs_in_memory') > 0 THEN "build" ELSE "ret"]
    /\ UNCHANGED <<loop, vector_index, bm25_objs, bm25_retriever, ensemble_objs,
                   ensemble_retriever, chains, locals, response, err, history>>

\* Variant: the new documents are inserted at the head of the corpus.
ExtendCorpusPrepends(r) ==
    /\ pc[r] = "extend"
    /\ MayRun(r)
    /\ UNCHANGED <<others, data_dir>>
    /\ all_docs_in_memory' = split_docs[r] \o all_docs_in_memory
    /\ pc' = [pc EXCEPT ![r] =
                IF Len(all_docs_in_memory') > 0 THEN "build" ELSE "ret"]
    /\ UNCHANGED <<loop, vector_index, bm25_objs, bm25_retriever, ensemble_objs,
                   ensemble_retriever, chains, locals, response, err, history>>

\* Step 4, add_documents_for_bm25: all_docs_in_memory.extend(documents).
ExtendCorpus(r) ==
    /\ pc[r] = "extend"
    /\ MayRun(r)
    /\ UNCHANGED <<others, data_dir>>
    /\ all_docs_in_memory' = all_docs_in_memory \o split_docs[r]
    /\ pc' = [pc EXCEPT ![r] =
                IF Len(all_docs_in_memory') > 0 THEN "build" ELSE "ret"]
    /\ UNCHANGED <<loop, vector_index, bm25_objs, bm25_retriever, ensemble_objs,
                   ensemble_retriever, chains, locals, response, err, history>>

\* Variant: a failed rebuild takes the new documents out of the corpus again.
BuildBm25RollsBack(r) ==
    /\ pc[r] = "build"
    /\ MayRun(r)
    /\ UNCHANGED <<others, data_dir>>
    /\ \/ /\ bm25_objs' = Append(bm25_objs, all_docs_in_memory)
          /\ built' = [built EXCEPT ![r] = Len(bm25_objs) + 1]
          /\ pc' = [pc EXCEPT ![r] = "assign"]
          /\ UNCHANGED all_docs_in_memory
       \/ /\ pc' = [pc EXCEPT ![r] = "ret"]
          /\ all_docs_in_memory' = pre[r].corpus
          /\ UNCHANGED <<bm25_objs, built>>
    /\ UNCHANGED <<loop, vector_index, bm25_retriever,
                   ensemble_objs, ensemble_retriever, chains, split_docs,
                   new_retriever, qchain, response, err, history>>

\* Variant: the retriever is rebuilt from the new documents alone.
BuildBm25NewOnly(r) ==
    /\ pc[r] = "build"
    /\ MayRun(r)
    /\ UNCHANGED <<others, data_dir>>
    /\ \/ /\ bm25_objs' = Append(bm25_objs, split_docs[r])
          /\ built' = [built EXCEPT ![r] = Len(bm25_objs) + 1]
          /\ pc' = [pc EXCEPT ![r] = "assign"]
       \/ /\ pc' = [pc EXCEPT ![r] = "ret"]
          /\ UNCHANGED <<bm25_objs, built>>
    /\ UNCHANGED <<loop, vector_index, all_docs_in_memory, bm25_retriever,
                   ensemble_objs, ensemble_retriever, chains, split_docs,
                   new_retriever, qchain, response, err, history>>

\* Variant: a failed rebuild is re-raised instead of absorbed.
BuildBm25Raises(r) ==
    /\ pc[r] = "build"
    /\ MayRun(r)
    /\ UNCHANGED <<others, data_dir>>
    /\ \/ /\ bm25_objs' = Append(bm25_objs, all_docs_in_memory)
          /\ built' = [built EXCEPT ![r] = Len(bm25_objs) + 1]
          /\ pc' = [pc EXCEPT ![r] = "assign"]
          /\ UNCHANGED err
       \/ /\ pc' = [pc EXCEPT ![r] = "raise"]
          /\ err' = [err EXCEPT ![r] = "bm25"]
          /\ UNCHANGED <<bm25_objs, built>>
    /\ UNCHANGED <<loop, vector_index, all_docs_in_memory, bm25_retriever,
                   ensemble_objs, ensemble_retriever, chains, split_docs,
                   new_retriever, qchain, response, history>>

\* BM25Retriever.from_documents(self.all_docs_in_memory): a new retriever
\* holding its own copy of the docs, or an exception that is logged and absorbed.
BuildBm25(r) ==
    /\ pc[r] = "build"
    /\ MayRun(r)
    /\ UNCHANGED <<others, data_dir>>
    /\ \/ /\ bm25_objs' = Append(bm25_objs, all_docs_in_memory)
          /\ built' = [built EXCEPT ![r] = Len(bm25_objs) + 1]
          /\ pc' = [pc EXCEPT ![r] = "assign"]
       \/ /\ pc' = [pc EXCEPT ![r] = "ret"]
          /\ UNCHANGED <<bm25_objs, built>>
    /\ UNCHANGED <<loop, vector_index, all_docs_in_memory, bm25_retriever,
                   ensemble_objs, ensemble_retriever, chains, split_docs,
                   new_retriever, qchain, response, err, history>>

\* self.bm25_retriever = <the retriever just built>
AssignBm25(r) ==
    /\ pc[r] = "assign"
    /\ MayRun(r)
    /\ UNCHANGED <<others, data_dir>>
    /\ bm25_retriever' = built[r]
    /\ pc' = [pc EXCEPT ![r] = "ensemble"]
    /\ UNCHANGED <<loop, vector_index, all_docs_in_memory, bm25_objs,
                   ensemble_objs, ensemble_retriever, chains, locals,
                   response, err, history>>

\* Variant: the two weights are appended in the opposite order.
EnsembleListsSwapped(bm25) ==
    LET r1 == IF bm25 # 0 THEN <<[type |-> "bm25", id |-> bm25]>> ELSE <<>>
        w1 == IF bm25 # 0 THEN <<PINECONE_WEIGHT>> ELSE <<>>
    IN [retrievers |-> Append(r1, [type |-> "pinecone", id |-> 0]),
        weights |-> Append(w1, BM25_WEIGHT)]

\* Variant: the lexical retriever is left out of the lists.
EnsembleListsVectorOnly(bm25) ==
    [retrievers |-> <<[type |-> "pinecone", id |-> 0]>>,
     weights |-> <<PINECONE_WEIGHT>>]

\* The retrievers and weights lists _update_ensemble assembles.
EnsembleLists(bm25) ==
    LET r1 == IF bm25 # 0 THEN <<[type |-> "bm25", id |-> bm25]>> ELSE <<>>
        w1 == IF bm25 # 0 THEN <<BM25_WEIGHT>> ELSE <<>>
    IN [retrievers |-> Append(r1, [type |-> "pinecone", id |-> 0]),
        weights |-> Append(w1, PINECONE_WEIGHT)]

\* RetrieverProvider._update_ensemble
UpdateEnsemble(r) ==
    /\ pc[r] = "ensemble"
    /\ MayRun(r)
    /\ UNCHANGED <<others, data_dir>>
    /\ LET lists == EnsembleLists(bm25_retriever)
       IN IF Len(lists.retrievers) > 1
          THEN /\ ensemble_objs' = Append(ensemble_objs, lists)
               /\ ensemble_retriever' = Len(ensemble_objs) + 1
          ELSE /\ ensemble_retriever' = 0
               /\ UNCHANGED ensemble_objs
    /\ pc' = [pc EXCEPT ![r] = "ret"]
    /\ UNCHANGED <<loop, vector_index, all_docs_in_memory, bm25_objs,
                   bm25_retriever, chains, locals, response, err, history>>

\* upload_document: new_retriever = self.retriever_provider.get_retriever()
GetRetriever(r) ==
    /\ pc[r] = "ret"
    /\ MayRun(r)
    /\ UNCHANGED <<others, data_dir>>
    /\ new_retriever' = [new_retriever EXCEPT ![r] = ensemble_retriever]
    /\ pc' = [pc EXCEPT ![r] = "update"]
    /\ UNCHANGED <<loop, engine, split_docs, built, qchain, response, err, history>>

\* Variant: update_retriever stores the retriever and keeps the old chain.
UpdateRetrieverKeepsChain(r) ==
    /\ pc[r] = "update"
    /\ MayRun(r)
    /\ UNCHANGED <<others, data_dir>>
    /\ cp_retriever' = new_retriever[r]
    /\ response' = [response EXCEPT ![r] =
                      [kind |-> "count", n |-> Len(split_docs[r])]]
    /\ pc' = [pc EXCEPT ![r] = "done"]
    /\ loop' = 0
    /\ post' = [post EXCEPT ![r] = chain]
    /\ UNCHANGED <<vector_index, lexical, chain_objs, chain, locals, err, pre>>

\* ChainProvider.update_retriever, then upload_document returns num_chunks.
UpdateRetriever(r) ==
    /\ pc[r] = "update"
    /\ MayRun(r)
    /\ UNCHANGED <<others, data_dir>>
    /\ cp_retriever' = new_retriever[r]
    /\ chain_objs' = Append(chain_objs, [retriever |-> new_retriever[r]])
    /\ chain' = Len(chain_objs) + 1
    /\ response' = [response EXCEPT ![r] =
                      [kind |-> "count", n |-> Len(split_docs[r])]]
    /\ pc' = [pc EXCEPT ![r] = "done"]
    /\ loop' = 0
    /\ post' = [post EXCEPT ![r] = Len(chain_objs) + 1]
    /\ UNCHANGED <<vector_index, lexical, locals, err, pre>>

\* Variant: the exception ends the serving of requests instead of the call.
UploadRaiseFatal(r) ==
    /\ pc[r] = "raise"
    /\ MayRun(r)
    /\ UNCHANGED others
    /\ data_dir' = data_dir \ {FileName(r)}
    /\ pc' = [pc EXCEPT ![r] = "failed"]
    /\ loop' = r
    /\ UNCHANGED <<engine, locals, response, err, history>>

\* Variant: the handler answers 500 and leaves the saved file where it is.
UploadRaiseKeepsFile(r) ==
    /\ pc[r] = "raise"
    /\ MayRun(r)
    /\ UNCHANGED <<others, data_dir>>
    /\ pc' = [pc EXCEPT ![r] = "failed"]
    /\ loop' = 0
    /\ UNCHANGED <<engine, locals, response, err, history>>

\* The exception leaves ingest_file and upload_document; the handler removes
\* the saved file and answers 500.
UploadRaise(r) ==
    /\ pc[r] = "raise"
    /\ MayRun(r)
    /\ UNCHANGED others
    /\ data_dir' = data_dir \ {FileName(r)}
    /\ pc' = [pc EXCEPT ![r] = "failed"]
    /\ loop' = 0
    /\ UNCHANGED <<engine, locals, response, err, history>>

\* ---- POST /chat -> RAGSystem.ask_question ----
\* chain = self.chain_provider.get_chain()
GetChain(r) ==
    /\ pc[r] = "pending"
    /\ MayRun(r)
    /\ InTurn(r)
    /\ initialized
    /\ Strip(query[r]) # ""
    /\ UNCHANGED <<others, data_dir>>
    /\ loop' = r
    /\ qchain' = [qchain EXCEPT ![r] = chain]
    /\ pc' = [pc EXCEPT ![r] = "invoke"]
    /\ UNCHANGED <<engine, split_docs, built, new_retriever, response, err, history>>

\* Variant: a retriever without a lexical snapshot raises instead of serving.
ChainInvokeEmptyCorpus(r) ==
    /\ pc[r] = "invoke"
    /\ MayRun(r)
    /\ UNCHANGED <<others, data_dir>>
    /\ \/ /\ SnapshotOf(chain_objs[qchain[r]].retriever) # 0
          /\ response' = [response EXCEPT ![r] =
                [kind |-> "docs",
                 lexical |-> LexicalDocs(chain_objs[qchain[r]].retriever),
                 vector |-> vector_index]]
          /\ pc' = [pc EXCEPT ![r] = "done"]
          /\ UNCHANGED err
       \/ /\ err' = [err EXCEPT ![r] = "query"]
          /\ pc' = [pc EXCEPT ![r] = "failed"]
          /\ UNCHANGED response
    /\ loop' = 0
    /\ UNCHANGED <<engine, locals, history>>

\* Variant: a failing query is logged and answered with an empty result.
ChainInvokeFallback(r) ==
    /\ pc[r] = "invoke"
    /\ MayRun(r)
    /\ UNCHANGED <<others, data_dir>>
    /\ \/ /\ response' = [response EXCEPT ![r] =
                [kind |-> "docs",
                 lexical |-> LexicalDocs(chain_objs[qchain[r]].retriever),
                 vector |-> vector_index]]
          /\ UNCHANGED err
       \/ /\ err' = [err EXCEPT ![r] = "query"]
          /\ response' = [response EXCEPT ![r] =
                [kind |-> "docs", lexical |-> {}, vector |-> {}]]
    /\ pc' = [pc EXCEPT ![r] = "done"]
    /\ loop' = 0
    /\ UNCHANGED <<engine, locals, history>>

\* chain.invoke: the wrapped retriever reads its lexical snapshot and the
\* Pinecone index; an exception is logged and re-raised.
ChainInvoke(r) ==
    /\ pc[r] = "invoke"
    /\ MayRun(r)
    /\ UNCHANGED <<others, data_dir>>
    /\ \/ /\ response' = [response EXCEPT ![r] =
                [kind |-> "docs",
                 lexical |-> LexicalDocs(chain_objs[qchain[r]].retriever),
                 vector |-> vector_index]]
          /\ pc' = [pc EXCEPT ![r] = "done"]
          /\ UNCHANGED err
       \/ /\ err' = [err EXCEPT ![r] = "query"]
          /\ pc' = [pc EXCEPT ![r] = "failed"]
          /\ UNCHANGED response
    /\ loop' = 0
    /\ UNCHANGED <<engine, locals, history>>

\* ---- the requests the endpoints turn away ----
\* get_rag_system: rag_system is None, the dependency raises 503 before the
\* handler body runs.
GetRagSystem(r) ==
    /\ pc[r] = "pending"
    /\ MayRun(r)
    /\ InTurn(r)
    /\ ~initialized
    /\ pc' = [pc EXCEPT ![r] = "rejected"]
    /\ err' = [err EXCEPT ![r] = "503"]
    /\ UNCHANGED <<others, data_dir, loop, engine, locals, response, history>>

\* upload_file: the name does not end with .txt, 400 before anything is saved.
UploadRejectName(r) ==
    /\ pc[r] = "pending"
    /\ MayRun(r)
    /\ initialized
    /\ ~IsTxt(FileName(r))
    /\ pc' = [pc EXCEPT ![r] = "rejected"]
    /\ err' = [err EXCEPT ![r] = "400"]
    /\ UNCHANGED <<others, data_dir, loop, engine, locals, response, history>>

\* chat: the query is empty once stripped, 400 before the engine is called.
ChatRejectEmpty(r) ==
    /\ pc[r] = "pending"
    /\ MayRun(r)
    /\ InTurn(r)
    /\ initialized
    /\ Strip(query[r]) = ""
    /\ pc' = [pc EXCEPT ![r] = "rejected"]
    /\ err' = [err EXCEPT ![r] = "400"]
    /\ UNCHANGED <<others, data_dir, loop, engine, locals, response, history>>

Next ==
    \/ \E r \in Uploads : UploadBegin(r)
    \/ \E r \in Uploads : LoadAndSplit(r)
    \/ \E r \in Uploads : AddDocumentsToPinecone(r)
    \/ \E r \in Uploads : ExtendCorpus(r)
    \/ \E r \in Uploads : BuildBm25(r)
    \/ \E r \in Uploads : AssignBm25(r)
    \/ \E r \in Uploads : UpdateEnsemble(r)
    \/ \E r \in Uploads : GetRetriever(r)
    \/ \E r \in Uploads : UpdateRetriever(r)
    \/ \E r \in Uploads : UploadRaise(r)
    \/ \E r \in Chats : GetChain(r)
    \/ \E r \in Chats : ChainInvoke(r)

Spec == Init /\ [][Next]_vars

\* The same requests against an index that already holds chunks.
SpecRestart == InitRestart /\ [][Next]_vars

\* Ingestions alone, of documents that may be uploaded more than once.
NextReingest ==
    \/ \E r \in Uploads : UploadBegin(r)
    \/ \E r \in Uploads : LoadAndSplit(r)
    \/ \E r \in Uploads : AddDocumentsToPinecone(r)
    \/ \E r \in Uploads : ExtendCorpus(r)
    \/ \E r \in Uploads : BuildBm25(r)
    \/ \E r \in Uploads : AssignBm25(r)
    \/ \E r \in Uploads : UpdateEnsemble(r)
    \/ \E r \in Uploads : GetRetriever(r)
    \/ \E r \in Uploads : UpdateRetriever(r)
    \/ \E r \in Uploads : UploadRaise(r)

SpecReingest == InitReingest /\ [][NextReingest]_vars

\* The endpoints under any requests: those they serve and those they turn away.
NextHttp ==
    \/ Next
    \/ \E r \in Reqs : GetRagSystem(r)
    \/ \E r \in Uploads : UploadRejectName(r)
    \/ \E r \in Chats : ChatRejectEmpty(r)

SpecHttp == InitHttp /\ [][NextHttp]_vars

\* ---- WebSocket /ws/chat of main.py ----
\* What the audio of an utterance holds: STTProvider.transcribe would return
\* an empty text, return a text, or raise.
Heard == {"silence", "speech", "stt_error"}

\* The methods class RAGSystem defines.
RAGSystemMethods ==
    {"__init__", "upload_document", "ask_question", "ask_question_from_audio"}

\* system.transcribe_audio(temp_file_path): the attribute lookup comes first.
TranscribeAudio(h) ==
    IF "transcribe_audio" \in RAGSystemMethods THEN h ELSE "attribute_error"

\* The message the END branch sends first, by the outcome of the transcription.
FirstMessages(t) ==
    CASE t = "silence" -> <<"silence">>
      [] t = "speech" -> <<"query">>
      [] OTHER -> <<"error">>

\* Variant: the finally block closes the handle and leaves the file.
FinallyCloseOnly(open, exists) ==
    [open |-> IF open THEN FALSE ELSE open, exists |-> exists]

\* The finally block: close the handle if it is open, remove the file if it exists.
Finally(open, exists) ==
    [open |-> IF open THEN FALSE ELSE open,
     exists |-> IF exists THEN FALSE ELSE exists]

\* A disconnect message: break, then the finally block.
WsDisconnect ==
    /\ ws_pc = "receive"
    /\ ws_pc' = "terminated"
    /\ file_open' = Finally(file_open, file_exists).open
    /\ file_exists' = Finally(file_open, file_exists).exists
    /\ file_content' = <<>>
    /\ UNCHANGED <<ws_count, ws_todo, ws_out, ws_heard, ws_audio, recv_since>>
    /\ UNCHANGED <<http, inputs, qs>>

\* A bytes message: file_handle.write, which may raise.
WsBytes ==
    /\ ws_pc = "receive"
    /\ ws_count < MaxMsgs
    /\ ws_count' = ws_count + 1
    /\ recv_since' = Append(recv_since, ws_count')
    /\ \/ /\ file_content' = Append(file_content, ws_count')
          /\ UNCHANGED <<ws_pc, file_open, file_exists>>
       \/ /\ ws_pc' = "terminated"
          /\ file_open' = Finally(file_open, file_exists).open
          /\ file_exists' = Finally(file_open, file_exists).exists
          /\ file_content' = <<>>
    /\ UNCHANGED <<ws_todo, ws_out, ws_heard, ws_audio>>
    /\ UNCHANGED <<http, inputs, qs>>

\* A text message other than "END": nothing is done with it.
WsText ==
    /\ ws_pc = "receive"
    /\ ws_count < MaxMsgs
    /\ ws_count' = ws_count + 1
    /\ UNCHANGED <<ws_pc, file_open, file_exists, file_content, ws_todo, ws_out,
                   ws_heard, ws_audio, recv_since>>
    /\ UNCHANGED <<http, inputs, qs>>

\* "END": close the handle, transcribe, and reach the first send.
WsEnd ==
    /\ ws_pc = "receive"
    /\ ws_count < MaxMsgs
    /\ ws_count' = ws_count + 1
    /\ file_open' = FALSE
    /\ \E h \in Heard :
          /\ ws_heard' = h
          /\ ws_todo' = FirstMessages(TranscribeAudio(h))
    /\ ws_audio' = file_content
    /\ ws_out' = <<>>
    /\ ws_pc' = "send"
    /\ UNCHANGED <<file_exists, file_content, recv_since>>
    /\ UNCHANGED <<http, inputs, qs>>

\* await websocket.send_json(...) and what follows it up to the next await:
\* after the query message, ask_question; after the last message of the END,
\* os.remove and open(temp_file_path, "wb"); a send that raises inside the
\* try block is answered with the error message, a raising send of the error
\* message leaves the handler through the finally block.
WsSend ==
    /\ ws_pc = "send"
    /\ LET msg == Head(ws_todo)
       IN \/ /\ msg = "query"
             /\ ws_out' = Append(ws_out, msg)
             /\ \E following \in {"answer", "error"} : ws_todo' = <<following>>
             /\ UNCHANGED <<ws_pc, file_open, file_exists, file_content, recv_since>>
          \/ /\ msg # "query"
             /\ ws_out' = Append(ws_out, msg)
             /\ ws_todo' = <<>>
             /\ file_content' = <<>>
             /\ recv_since' = <<>>
             /\ \/ /\ file_exists' = TRUE
                   /\ file_open' = TRUE
                   /\ ws_pc' = "receive"
                \/ /\ file_exists' = Finally(file_open, FALSE).exists
                   /\ file_open' = Finally(file_open, FALSE).open
                   /\ ws_pc' = "terminated"
          \/ /\ msg # "error"
             /\ ws_todo' = <<"error">>
             /\ UNCHANGED <<ws_pc, ws_out, file_open, file_exists, file_content,
                            recv_since>>
          \/ /\ msg = "error"
             /\ ws_todo' = <<>>
             /\ ws_pc' = "terminated"
             /\ file_open' = Finally(file_open, file_exists).open
             /\ file_exists' = Finally(file_open, file_exists).exists
             /\ file_content' = <<>>
             /\ UNCHANGED <<ws_out, recv_since>>
    /\ UNCHANGED <<ws_count, ws_heard, ws_audio>>
    /\ UNCHANGED <<http, inputs, qs>>

NextWs ==
    \/ WsDisconnect
    \/ WsBytes
    \/ WsText
    \/ WsEnd
    \/ WsSend

\* One /ws/chat connection from accept to termination.
SpecWs == Init /\ [][NextWs]_vars

\* ---- STT service: TranscriberServicer.Transcribe ----
\* What STTProvider.transcribe does with a request's audio: it returns the
\* stripped text of the segments, or re-raises the model's exception.
ProviderOutcomes ==
    {[kind |-> "text", text |-> t] : t \in {"", "what is bm25"}}
        \cup {[kind |-> "raise", msg |-> e] : e \in {"", "decode failed"}}

\* Variant: the provider's exception leaves Transcribe.
TranscribePropagates(o) ==
    IF o.kind = "text"
    THEN [kind |-> "response", text |-> o.text, success |-> TRUE, error_message |-> ""]
    ELSE [kind |-> "raised"]

\* Transcribe: the try block around provider.transcribe and its except branch.
Transcribe(o) ==
    IF o.kind = "text"
    THEN [kind |-> "response", text |-> o.text, success |-> TRUE, error_message |-> ""]
    ELSE [kind |-> "response", text |-> "", success |-> FALSE, error_message |-> o.msg]

\* ---- WebSocket /ws/chat of the query service ----
\* Variant: the answer is computed for a blank query too.
AnswersBlank(text) == TRUE

\* Whether the handler goes on to process_query after sending the query.
Answers(text) == Strip(text) # ""

\* The first message of a chunk, by what stt_stub.Transcribe gave the handler:
\* an exception of the servicer reaches the client as a grpc.RpcError.
QsFirstMessage(ret) ==
    IF ret.kind # "response"
    THEN [kind |-> "error", body |-> "Voice service is currently unavailable."]
    ELSE IF ~ret.success
         THEN [kind |-> "error", body |-> ret.error_message]
         ELSE [kind |-> "query", body |-> ret.text]

\* The messages sent from an except branch of the chunk's try statement.
QsFromHandler ==
    {[kind |-> "error", body |-> "Voice service is currently unavailable."],
     [kind |-> "error", body |-> "Error processing your question."]}

QsDisconnect ==
    /\ qs_pc = "receive"
    /\ qs_pc' = "closed"
    /\ qs_end' = "disconnect"
    /\ UNCHANGED <<qs_count, qs_todo, qs_out, qs_called, qs_send_raised,
                   stt_provider, stt_return>>
    /\ UNCHANGED <<http, inputs, ws>>

\* A message without bytes: the loop goes on.
QsText ==
    /\ qs_pc = "receive"
    /\ qs_count < MaxMsgs
    /\ qs_count' = qs_count + 1
    /\ UNCHANGED <<qs_pc, qs_todo, qs_out, qs_called, qs_send_raised, qs_end,
                   stt_provider, stt_return>>
    /\ UNCHANGED <<http, inputs, ws>>

\* An audio chunk: stt_stub.Transcribe (the channel may fail before the
\* servicer runs), up to the first send.
QsBytes ==
    /\ qs_pc = "receive"
    /\ qs_count < MaxMsgs
    /\ qs_count' = qs_count + 1
    /\ \/ /\ stt_provider' = [kind |-> "unreached"]
          /\ stt_return' = [kind |-> "unreached"]
       \/ \E o \in ProviderOutcomes :
            /\ stt_provider' = o
            /\ stt_return' = Transcribe(o)
    /\ qs_todo' = <<QsFirstMessage(stt_return')>>
    /\ qs_out' = <<>>
    /\ qs_called' = FALSE
    /\ qs_send_raised' = FALSE
    /\ qs_pc' = "send"
    /\ UNCHANGED qs_end
    /\ UNCHANGED <<http, inputs, ws>>

\* await websocket.send_json(...) and what follows it up to the next await:
\* after a non-blank query, process_query; a send that raises inside the try
\* block is answered from the except branch; a send that raises in an except
\* branch leaves the loop.
QsSend ==
    /\ qs_pc = "send"
    /\ LET msg == Head(qs_todo)
       IN \/ /\ msg.kind = "query" /\ Answers(msg.body)
             /\ qs_out' = Append(qs_out, msg)
             /\ qs_called' = TRUE
             /\ \/ qs_todo' = <<[kind |-> "answer", body |-> msg.body]>>
                \/ qs_todo' = <<[kind |-> "error",
                                 body |-> "Error processing your question."]>>
             /\ UNCHANGED <<qs_pc, qs_send_raised, qs_end>>
          \/ /\ ~(msg.kind = "query" /\ Answers(msg.body))
             /\ qs_out' = Append(qs_out, msg)
             /\ qs_todo' = <<>>
             /\ qs_pc' = "receive"
             /\ UNCHANGED <<qs_called, qs_send_raised, qs_end>>
          \/ /\ msg \notin QsFromHandler
             /\ qs_todo' = <<[kind |-> "error",
                              body |-> "Error processing your question."]>>
             /\ qs_send_raised' = TRUE
             /\ UNCHANGED <<qs_pc, qs_out, qs_called, qs_end>>
          \/ /\ msg \in QsFromHandler
             /\ qs_todo' = <<>>
             /\ qs_send_raised' = TRUE
             /\ qs_pc' = "closed"
             /\ qs_end' = "send raised"
             /\ UNCHANGED <<qs_out, qs_called>>
    /\ UNCHANGED <<qs_count, stt_provider, stt_return>>
    /\ UNCHANGED <<http, inputs, ws>>

NextQs ==
    \/ QsDisconnect
    \/ QsText
    \/ QsBytes
    \/ QsSend

\* One /ws/chat connection of the query service, with the STT service behind it.
SpecQs == Init /\ [][NextQs]_vars

\* ---- vocabulary of the properties ----
InHandler(r) == pc[r] \notin {"pending", "done", "failed", "rejected"}
NoIngestionInProgress == \A r \in Uploads : ~InHandler(r)
Chunks(r) == Range(split_docs[r])
Appended(r) == \E i \in DOMAIN all_docs_in_memory : all_docs_in_memory[i][1] = r
\* The rebuild of upload r was attempted and failed.
RebuildFailed(r) ==
    /\ Appended(r)
    /\ built[r] = 0
    /\ pc[r] \in {"ret", "update", "done", "raise", "failed"}
\* The retriever a chain object wraps.
RetrieverOf(c) == chain_objs[c].retriever
IsPrefix(s, t) == Len(s) <= Len(t) /\ SubSeq(t, 1, Len(s)) = s

\* C1: an upload that returned a positive chunk count has all its chunks in the
\* vector index and, unless its rebuild failed, in the lexical snapshot of the
\* chain it published, of the current chain, and of the chain held by any
\* ask_question that is running.
C1_Visibility ==
    \A r \in Uploads :
        (pc[r] = "done" /\ Len(split_docs[r]) > 0) =>
            /\ response[r] = [kind |-> "count", n |-> Len(split_docs[r])]
            /\ Chunks(r) \subseteq vector_index
            /\ built[r] # 0 =>
                /\ Chunks(r) \subseteq LexicalDocs(RetrieverOf(post[r]))
                /\ Chunks(r) \subseteq LexicalDocs(RetrieverOf(chain))
                /\ \A q \in Chats : pc[q] = "invoke" =>
                      Chunks(r) \subseteq LexicalDocs(RetrieverOf(qchain[q]))

C1_Witness ==
    \E r \in Uploads, q \in Chats :
        /\ pc[r] = "done" /\ Len(split_docs[r]) > 0 /\ built[r] # 0
        /\ pc[q] = "invoke"
        /\ Chunks(r) \subseteq LexicalDocs(RetrieverOf(qchain[q]))

C3_NoLostUpdate ==
    ((\A r \in Uploads : pc[r] = "done") /\ (\E r \in Uploads : Chunks(r) # {})) =>
        /\ \A r \in Uploads : Chunks(r) \subseteq Range(all_docs_in_memory)
        /\ SnapshotOf(RetrieverOf(chain)) # 0
        /\ bm25_objs[SnapshotOf(RetrieverOf(chain))] = all_docs_in_memory

\* C3 amended: at most one ingestion is between its corpus append and the end
\* of its rebuild; and whenever no ingestion is in progress the corpus holds the
\* chunks of every returned ingestion, the published snapshot is the most
\* recently built one, it was built from the corpus up to and including the
\* last ingestion whose rebuild succeeded, and it is the entire corpus when
\* the rebuild of the last ingestion to append succeeded.
C3_SerializedRebuild ==
    /\ \A r1, r2 \in Uploads :
          (pc[r1] \in {"extend", "build", "assign", "ensemble"}
             /\ pc[r2] \in {"extend", "build", "assign", "ensemble"}) => r1 = r2
    /\ NoIngestionInProgress =>
          /\ \A r \in Uploads :
                pc[r] = "done" => Chunks(r) \subseteq Range(all_docs_in_memory)
          /\ SnapshotOf(RetrieverOf(chain)) = Len(bm25_objs)
          /\ bm25_retriever = Len(bm25_objs)
          /\ \A i \in DOMAIN bm25_objs : IsPrefix(bm25_objs[i], all_docs_in_memory)
          /\ \A r \in Uploads :
                (pc[r] = "done" /\ built[r] # 0) =>
                    Chunks(r) \subseteq LexicalDocs(RetrieverOf(chain))
          /\ (Len(all_docs_in_memory) > 0
                /\ built[all_docs_in_memory[Len(all_docs_in_memory)][1]] # 0) =>
                    bm25_objs[Len(bm25_objs)] = all_docs_in_memory

C3_Witness ==
    /\ \A r \in Uploads : pc[r] = "done" /\ Chunks(r) # {} /\ built[r] # 0
    /\ bm25_objs[SnapshotOf(RetrieverOf(chain))] = all_docs_in_memory

\* The lexical side and the chain are what they were when upload r started.
LexicalSideUnchanged(r) ==
    /\ all_docs_in_memory = pre[r].corpus
    /\ bm25_objs = pre[r].snapshots
    /\ bm25_retriever = pre[r].bm25
    /\ ensemble_retriever = pre[r].ensemble

\* C4: when the vector upsert of an ingestion fails, the call raises with the
\* corpus, the snapshot, the ensemble retriever and the chain as they were when
\* it started; and chunks are in the corpus only if the vector index holds them.
C4_UpsertFailureLeavesLexical ==
    /\ \A r \in Uploads :
          err[r] = "store" =>
              /\ pc[r] \in {"raise", "failed"}
              /\ ~Appended(r)
              /\ built[r] = 0
              /\ response[r] = NoResponse
              /\ pc[r] = "raise" => (LexicalSideUnchanged(r) /\ chain = pre[r].chain)
    /\ \A r \in Uploads : Appended(r) => Chunks(r) \subseteq vector_index

C4_Witness ==
    \E r \in Uploads :
        /\ pc[r] = "raise" /\ err[r] = "store"
        /\ Chunks(r) \cap vector_index # {}
        /\ Len(all_docs_in_memory) > 0
        /\ bm25_retriever # 0

\* C5: a failed rebuild is absorbed: the ingestion does not raise and returns the
\* chunk count, the snapshot and retriever of before the call stay published,
\* and the chunks stay in the vector index.
C5_RebuildFailureAbsorbed ==
    \A r \in Uploads :
        /\ Appended(r) => (err[r] = "none" /\ pc[r] \notin {"raise", "failed"})
        /\ RebuildFailed(r) =>
              /\ Chunks(r) \subseteq vector_index
              /\ pc[r] \in {"ret", "update"} =>
                    /\ bm25_objs = pre[r].snapshots
                    /\ bm25_retriever = pre[r].bm25
                    /\ ensemble_retriever = pre[r].ensemble
              /\ pc[r] = "update" => new_retriever[r] = pre[r].ensemble
              /\ pc[r] = "done" =>
                    /\ response[r] = [kind |-> "count", n |-> Len(split_docs[r])]
                    /\ RetrieverOf(post[r]) = pre[r].ensemble
                    /\ SnapshotOf(RetrieverOf(post[r])) = pre[r].bm25
                    /\ pre[r].bm25 # 0 =>
                          bm25_objs[pre[r].bm25] = pre[r].snapshots[pre[r].bm25]

C5_Witness ==
    \E r \in Uploads :
        /\ RebuildFailed(r) /\ pc[r] = "done"
        /\ pre[r].bm25 # 0
        /\ SnapshotOf(RetrieverOf(chain)) = pre[r].bm25

SplitEmpty(r) ==
    pc[r] \notin {"pending", "load"} /\ err[r] \notin {"save", "load", "split"} /\ Len(split_docs[r]) = 0

\* C7: an ingestion whose document splits into zero chunks returns 0 without
\* raising, with the vector index, the corpus and the snapshot untouched.
C7_ZeroChunks ==
    \A r \in Uploads :
        SplitEmpty(r) =>
            /\ pc[r] \in {"ret", "update", "done"}
            /\ err[r] = "none"
            /\ built[r] = 0
            /\ pc[r] \in {"ret", "update"} =>
                  (vector_index = pre[r].vector /\ LexicalSideUnchanged(r))
            /\ pc[r] = "done" =>
                  /\ response[r] = [kind |-> "count", n |-> 0]
                  /\ RetrieverOf(post[r]) = pre[r].ensemble

C7_Witness ==
    \E r \in Uploads :
        /\ SplitEmpty(r) /\ pc[r] = "done"
        /\ pre[r].bm25 # 0

\* C8: a query reads the chain once and holds the event loop until it is
\* answered, and the chain, retriever and snapshot it captured are never changed
\* afterwards: what the captured chain yields in any later state is what the
\* query was answered with.
C8_CapturedViewStable ==
    /\ \A q \in Chats :
          /\ pc[q] = "invoke" => (loop = q /\ qchain[q] \in DOMAIN chain_objs)
          /\ response[q].kind = "docs" =>
                response[q].lexical = LexicalDocs(RetrieverOf(qchain[q]))
    /\ \A r \in Uploads :
          /\ pre[r].bm25 # 0 => bm25_objs[pre[r].bm25] = pre[r].snapshots[pre[r].bm25]
          /\ IsPrefix(pre[r].snapshots, bm25_objs)

C8_Witness ==
    \E q \in Chats, r \in Uploads :
        /\ response[q].kind = "docs"
        /\ response[q].lexical # {}
        /\ pc[r] = "done" /\ built[r] # 0
        /\ ~(Chunks(r) \subseteq response[q].lexical)
        /\ qchain[q] # chain

\* C9: whenever no ingestion is in progress, the chain get_chain returns wraps
\* the retriever get_retriever returns.
C9_ChainWrapsCurrentRetriever ==
    NoIngestionInProgress =>
        /\ RetrieverOf(chain) = ensemble_retriever
        /\ cp_retriever = ensemble_retriever

C9_Witness ==
    /\ NoIngestionInProgress
    /\ \A r \in Uploads : pc[r] = "done"
    /\ ensemble_retriever = Len(ensemble_objs)
    /\ Len(ensemble_objs) > 1

\* C10: a snapshot is built from the entire corpus (the corpus of before the
\* call followed by the new chunks), and from a successful rebuild until the
\* ingestion returns the current snapshot holds exactly the corpus.
C10_SnapshotIsWholeCorpus ==
    \A r \in Uploads :
        (built[r] # 0 /\ pc[r] \in {"assign", "ensemble", "ret", "update"}) =>
            /\ all_docs_in_memory = pre[r].corpus \o split_docs[r]
            /\ bm25_objs[built[r]] = all_docs_in_memory
            /\ pc[r] # "assign" => bm25_objs[bm25_retriever] = all_docs_in_memory
            /\ pc[r] \in {"ret", "update"} =>
                  bm25_objs[SnapshotOf(ensemble_retriever)] = all_docs_in_memory

C10_Witness ==
    \E r \in Uploads :
        /\ built[r] # 0 /\ pc[r] = "update"
        /\ Len(pre[r].corpus) > 0
        /\ bm25_objs[SnapshotOf(new_retriever[r])] = pre[r].corpus \o split_docs[r]

\* The chunks of every upload that reached the corpus lie in it as one block,
\* in chunk order.
ContiguousInOrder ==
    \A r \in Uploads :
        Appended(r) =>
            \E i \in 0..Len(all_docs_in_memory) :
                SubSeq(all_docs_in_memory, i + 1, i + Len(split_docs[r])) = split_docs[r]

\* C11: every step leaves the corpus of the state before it as a prefix of the
\* corpus after it (the corpus only grows, in insertion order), and the chunks
\* of each ingestion lie in the corpus contiguously, in chunk order.
C11_CorpusGrowsByAppend ==
    [][/\ IsPrefix(all_docs_in_memory, all_docs_in_memory')
       /\ ContiguousInOrder']_vars

C11_Witness ==
    \E r1, r2 \in Uploads :
        /\ r1 # r2
        /\ Len(split_docs[r1]) = MaxChunks
        /\ Len(split_docs[r2]) = MaxChunks
        /\ all_docs_in_memory = split_docs[r1] \o split_docs[r2]

\* A lexical snapshot was built by an ingestion that has returned.
SnapshotPublished == \E r \in Uploads : pc[r] = "done" /\ built[r] # 0

\* C12: the published retriever is the Pinecone retriever alone exactly when
\* no lexical snapshot has been built and published (between handler bodies:
\* exactly when none was ever built), and otherwise an ensemble of a lexical
\* snapshot and the Pinecone retriever, in that order; a query holding the
\* vector-only view can be served, and is served from the vector index alone.
C12_VectorOnlyFallback ==
    /\ RetrieverOf(chain) = 0 <=> ~SnapshotPublished
    /\ loop = 0 => (RetrieverOf(chain) = 0 <=> bm25_objs = <<>>)
    /\ RetrieverOf(chain) # 0 =>
          LET rs == ensemble_objs[RetrieverOf(chain)].retrievers
          IN /\ Len(rs) = 2
             /\ rs[1].type = "bm25" /\ rs[1].id \in DOMAIN bm25_objs
             /\ rs[2] = [type |-> "pinecone", id |-> 0]
    /\ \A q \in Chats :
          /\ (pc[q] = "invoke" /\ RetrieverOf(qchain[q]) = 0) =>
                ENABLED (ChainInvoke(q) /\ pc'[q] = "done")
          /\ (pc[q] = "done" /\ RetrieverOf(qchain[q]) = 0) =>
                /\ err[q] = "none"
                /\ response[q].kind = "docs"
                /\ response[q].lexical = {}

C12_Witness ==
    \E q \in Chats :
        /\ pc[q] = "done"
        /\ RetrieverOf(qchain[q]) = 0
        /\ response[q].lexical = {}
        /\ response[q].vector # {}
        /\ all_docs_in_memory # <<>>

\* The entries of the Pinecone index that hold chunks of document d.
VectorEntriesOf(d) == {e \in vector_index : e[1] \in Uploads /\ doc[e[1]] = d}
\* The positions of the corpus that hold chunks of document d.
CorpusEntriesOf(d) ==
    {i \in DOMAIN all_docs_in_memory : doc[all_docs_in_memory[i][1]] = d}
\* The uploads of document d that returned.
Returned(d) == {r \in Uploads : doc[r] = d /\ pc[r] = "done"}

\* C13 as stated: when the same document has been ingested twice, the index
\* holds as many entries for it as after the first ingestion, one per chunk.
C13_UpsertIdempotent ==
    \A r1, r2 \in Uploads :
        (r1 # r2 /\ doc[r1] = doc[r2] /\ pc[r1] = "done" /\ pc[r2] = "done") =>
            Cardinality(VectorEntriesOf(doc[r1])) = Len(split_docs[r1])

\* C14: an ingestion that returned answered its chunk count N and put its N
\* chunks right after the corpus it started from, and the snapshot it rebuilt
\* holds that longer corpus; the uploads of one document all split into the
\* same N chunks, and once they have returned the corpus holds N entries of
\* the document for each of them.
C14_LexicalAppendsEveryTime ==
    /\ \A r \in Uploads :
          pc[r] = "done" =>
            LET N == Len(split_docs[r])
                before == Len(pre[r].corpus)
            IN /\ response[r] = [kind |-> "count", n |-> N]
               /\ Len(all_docs_in_memory) >= before + N
               /\ SubSeq(all_docs_in_memory, 1, before) = pre[r].corpus
               /\ SubSeq(all_docs_in_memory, before + 1, before + N) = split_docs[r]
               /\ built[r] # 0 => Len(bm25_objs[built[r]]) = before + N
               /\ \A r2 \in Returned(doc[r]) : Len(split_docs[r2]) = N
    /\ NoIngestionInProgress =>
          \A r \in Uploads :
              pc[r] = "done" =>
                Cardinality(CorpusEntriesOf(doc[r])) =
                    Len(split_docs[r]) * Cardinality(Returned(doc[r]))

C14_Witness ==
    \E r1, r2 \in Uploads :
        /\ r1 # r2 /\ doc[r1] = doc[r2]
        /\ pc[r1] = "done" /\ pc[r2] = "done"
        /\ Len(split_docs[r1]) = MaxChunks
        /\ Len(all_docs_in_memory) = 2 * MaxChunks
        /\ built[r2] # 0 /\ Len(bm25_objs[built[r2]]) = 2 * MaxChunks
        /\ response[r2] = [kind |-> "count", n |-> MaxChunks]

\* C15: the step in which a query fails raises the error to the caller (the
\* request ends failed, with no answer) and leaves the corpus, the snapshots,
\* the vector index and the published chain as they were; a failed query
\* never holds an answer afterwards.
C15_QueryFailureSurfaces ==
    [][\A q \in Chats :
         /\ (err[q] = "none" /\ err'[q] # "none") =>
               /\ err'[q] = "query"
               /\ pc'[q] = "failed"
               /\ response'[q] = NoResponse
               /\ UNCHANGED engine
         /\ err'[q] # "none" => (pc'[q] = "failed" /\ response'[q] = NoResponse)]_vars

C15_Witness ==
    \E q \in Chats :
        /\ err[q] = "query"
        /\ pc[q] = "failed"
        /\ response[q] = NoResponse
        /\ SnapshotOf(RetrieverOf(qchain[q])) # 0

\* No ingestion has been started on the engine.
Fresh == \A r \in Uploads : pc[r] = "pending"

\* C16 as stated: a query served by an engine on which no ingestion was
\* performed returns no chunk at all.
C16_FreshEngineEmpty ==
    \A q \in Chats :
        (Fresh /\ pc[q] = "done") =>
            /\ response[q].lexical = {}
            /\ response[q].vector = {}

\* C16 amended: on an engine on which no ingestion was performed a query holds
\* the vector-only view, its serving step is enabled (the missing lexical
\* snapshot raises nothing), and it is answered with no lexical chunk and with
\* the chunks the Pinecone index held when the process started.
C16_FreshEngineVectorOnly ==
    \A q \in Chats :
        Fresh =>
            /\ pc[q] = "invoke" =>
                  /\ RetrieverOf(qchain[q]) = 0
                  /\ ENABLED (ChainInvoke(q) /\ pc'[q] = "done")
            /\ pc[q] = "done" =>
                  response[q] = [kind |-> "docs", lexical |-> {},
                                 vector |-> PriorIndex]

C16_Witness ==
    \E q \in Chats :
        /\ Fresh
        /\ pc[q] = "done"
        /\ response[q].lexical = {}
        /\ response[q].vector = PriorIndex

\* The weight the configuration gives a retriever of the ensemble.
ConfiguredWeight(ret) ==
    IF ret.type = "bm25" THEN BM25_WEIGHT ELSE PINECONE_WEIGHT

\* C17: every ensemble ever built, the published one included, carries one
\* weight per retriever, the configured BM25_WEIGHT at the position of the
\* lexical retriever and the configured PINECONE_WEIGHT at the position of the
\* Pinecone retriever; all ensembles carry the same pair.
C17_WeightsFixed ==
    /\ \A i \in DOMAIN ensemble_objs :
          LET e == ensemble_objs[i]
          IN /\ Len(e.weights) = Len(e.retrievers)
             /\ \A j \in DOMAIN e.retrievers :
                   e.weights[j] = ConfiguredWeight(e.retrievers[j])
             /\ e.weights = <<BM25_WEIGHT, PINECONE_WEIGHT>>
    /\ \A i, j \in DOMAIN ensemble_objs :
          ensemble_objs[i].weights = ensemble_objs[j].weights
    /\ RetrieverOf(chain) \in {0} \cup DOMAIN ensemble_objs

C17_Witness ==
    /\ Len(ensemble_objs) >= 2
    /\ RetrieverOf(chain) = Len(ensemble_objs)
    /\ ensemble_objs[RetrieverOf(chain)].weights = <<BM25_WEIGHT, PINECONE_WEIGHT>>
    /\ ensemble_objs[1].retrievers # ensemble_objs[2].retrievers

\* C18 as stated: a query that is waiting to be handled while an ingestion is
\* between its start and its return can start running.
C18_QueriesNeverBlock ==
    \A q \in Chats, r \in Uploads :
        (pc[q] = "pending" /\ InHandler(r)) => ENABLED GetChain(q)

\* An ingestion whose split raised on the chunking configuration raises to its
\* caller without an answer, with no chunk of it in the vector index or the
\* corpus and the engine as it was when the call started; once it has failed
\* the event loop is free, every waiting request can start and a query that
\* has started can be served.
SplitFailureContained ==
    \A r \in Uploads :
        err[r] = "split" =>
            /\ pc[r] \in {"raise", "failed"}
            /\ response[r] = NoResponse
            /\ \A e \in vector_index : e[1] # r
            /\ \A i \in DOMAIN all_docs_in_memory : all_docs_in_memory[i][1] # r
            /\ pc[r] = "raise" => Observed = pre[r]
            /\ pc[r] = "failed" =>
                  /\ loop # r
                  /\ \A r2 \in Uploads :
                        (pc[r2] = "pending" /\ loop = 0) => ENABLED UploadBegin(r2)
                  /\ \A q \in Chats :
                        /\ (pc[q] = "pending" /\ loop = 0 /\ InTurn(q)) =>
                              ENABLED GetChain(q)
                        /\ pc[q] = "invoke" =>
                              ENABLED (ChainInvoke(q) /\ pc'[q] = "done")

AbsorbedRebuildFailure(r) ==
    /\ Len(split_docs[r]) > 0
    /\ built[r] = 0
    /\ err[r] = "none"
    /\ pc[r] \in {"ret", "update", "done"}
\* Upload r2 rebuilt the snapshot after upload r had appended its chunks.
RebuiltAfter(r, r2) ==
    /\ built[r2] # 0
    /\ Chunks(r) \subseteq Range(pre[r2].corpus)
\* The chunk sequence of the published lexical snapshot (empty if there is none).
PublishedSnapshotDocs ==
    IF SnapshotOf(RetrieverOf(chain)) = 0 THEN <<>>
    ELSE bm25_objs[SnapshotOf(RetrieverOf(chain))]

\* C20: the chunks of an ingestion whose rebuild failed stay in the corpus;
\* the snapshot built by a later ingestion holds them together with that
\* ingestion's chunks; and as long as no later rebuild has succeeded the corpus
\* is strictly longer than the published snapshot's chunk sequence.
C20_FailedRebuildCaughtUp ==
    \A r \in Uploads :
        AbsorbedRebuildFailure(r) =>
            /\ Chunks(r) \subseteq Range(all_docs_in_memory)
            /\ \A r2 \in Uploads :
                  RebuiltAfter(r, r2) =>
                      (Chunks(r) \cup Chunks(r2)) \subseteq Range(bm25_objs[built[r2]])
            /\ (~\E r2 \in Uploads : RebuiltAfter(r, r2)) =>
                  /\ Len(all_docs_in_memory) > Len(PublishedSnapshotDocs)
                  /\ Chunks(r) \cap Range(PublishedSnapshotDocs) = {}

C20_Witness ==
    \E r, r2 \in Uploads :
        /\ AbsorbedRebuildFailure(r) /\ pc[r] = "done"
        /\ RebuiltAfter(r, r2) /\ pc[r2] = "done"
        /\ SnapshotOf(RetrieverOf(chain)) = built[r2]
        /\ (Chunks(r) \cup Chunks(r2)) \subseteq Range(PublishedSnapshotDocs)
        /\ Chunks(r2) # {}

\* C21 as stated: once an END has been processed, the messages sent for it
\* are the silence answer alone when its audio transcribes to nothing, the
\* query and then the answer (or the error of answering) when it transcribes
\* to a text, and the error alone when the transcription fails.
C21_OneOutcomePerEnd ==
    (ws_pc = "receive" /\ ws_heard # "none") =>
        /\ ws_heard = "silence" => ws_out = <<"silence">>
        /\ ws_heard = "speech" =>
              ws_out \in {<<"query", "answer">>, <<"query", "error">>}
        /\ ws_heard = "stt_error" => ws_out = <<"error">>

\* C23: a terminated handler has closed its file handle and removed its temp
\* file; while it waits for a message the file is open and holds exactly the
\* bytes received since the previous END, and the audio of the END being
\* processed is exactly those bytes.
C23_TempFileLifecycle ==
    /\ ws_pc = "terminated" => (~file_open /\ ~file_exists)
    /\ ws_pc = "receive" =>
          (file_open /\ file_exists /\ file_content = recv_since)
    /\ ws_pc = "send" => (~file_open /\ ws_audio = recv_since)

C23_Witness ==
    /\ ws_pc = "terminated"
    /\ ~file_open /\ ~file_exists
    /\ ws_heard # "none"
    /\ Len(ws_audio) = 1
    /\ ws_count = MaxMsgs
    /\ Len(ws_out) = 1

\* The last chunk has been processed and none of its sends raised.
ChunkProcessed ==
    qs_pc = "receive" /\ stt_return.kind # "none" /\ ~qs_send_raised
Unavailable == [kind |-> "error", body |-> "Voice service is currently unavailable."]

\* C22: for a processed chunk - when the gRPC call raised, or the response has
\* success = false, one error message was sent and process_query was not
\* called; when the text is blank, the query message alone was sent and
\* process_query was not called; otherwise the query message was sent first
\* and the answer (or the error of answering) after it.  An answer is never
\* the first message of a chunk, process_query runs for non-blank successful
\* transcriptions only, and the loop ends only on a disconnect message or on
\* a send that raised in an except branch.
C22_ChunkOutcomes ==
    /\ ChunkProcessed =>
          /\ stt_return.kind = "unreached" =>
                (qs_out = <<Unavailable>> /\ ~qs_called)
          /\ (stt_return.kind = "response" /\ ~stt_return.success) =>
                /\ qs_out = <<[kind |-> "error", body |-> stt_return.error_message]>>
                /\ ~qs_called
          /\ (stt_return.kind = "response" /\ stt_return.success
                  /\ Strip(stt_return.text) = "") =>
                /\ qs_out = <<[kind |-> "query", body |-> stt_return.text]>>
                /\ ~qs_called
          /\ (stt_return.kind = "response" /\ stt_return.success
                  /\ Strip(stt_return.text) # "") =>
                /\ qs_called
                /\ Len(qs_out) = 2
                /\ qs_out[1] = [kind |-> "query", body |-> stt_return.text]
                /\ qs_out[2].kind \in {"answer", "error"}
    /\ \A i \in DOMAIN qs_out :
          qs_out[i].kind = "answer" => (i > 1 /\ qs_out[1].kind = "query")
    /\ qs_called =>
          /\ stt_return.kind = "response" /\ stt_return.success
          /\ Strip(stt_return.text) # ""
    /\ qs_pc = "closed" <=> qs_end \in {"disconnect", "send raised"}
    /\ qs_end = "send raised" => qs_send_raised

C22_Witness ==
    /\ ChunkProcessed
    /\ qs_count = MaxMsgs
    /\ stt_return.kind = "response" /\ stt_return.success
    /\ Len(qs_out) = 2
    /\ qs_out[1].kind = "query" /\ qs_out[2].kind = "answer"

\* C25: whatever the provider did with a request, Transcribe returned a
\* response: the text with success = true and an empty error_message when the
\* provider returned, an empty text with success = false and the failure text
\* when it raised; the exception never left Transcribe.
C25_FailuresAsValues ==
    /\ stt_provider.kind = "text" =>
          stt_return = [kind |-> "response", text |-> stt_provider.text,
                        success |-> TRUE, error_message |-> ""]
    /\ stt_provider.kind = "raise" =>
          stt_return = [kind |-> "response", text |-> "",
                        success |-> FALSE, error_message |-> stt_provider.msg]

C25_Witness ==
    /\ stt_provider = [kind |-> "raise", msg |-> "decode failed"]
    /\ stt_return.kind = "response"
    /\ ~stt_return.success
    /\ qs_out = <<[kind |-> "error", body |-> "decode failed"]>>

\* C24: the step that handles an ingestion's exception removes the saved file
\* and ends the upload as failed, without a response; the step that ends an
\* upload as served leaves the saved file in the data directory and answers
\* with the number of chunks the ingestion returned; while the ingestion runs
\* the saved file is there.
C24_UploadOutcome ==
    [][\A r \in Uploads :
          /\ pc[r] = "raise" =>
                /\ err[r] \notin {"none", "save"}
                /\ FileName(r) \in data_dir
                /\ pc'[r] # "raise" =>
                      /\ pc'[r] = "failed"
                      /\ FileName(r) \notin data_dir'
                      /\ response'[r] = NoResponse
          /\ (pc[r] # "done" /\ pc'[r] = "done") =>
                /\ FileName(r) \in data_dir'
                /\ response'[r] = [kind |-> "count", n |-> Len(split_docs'[r])]
                /\ err'[r] = "none"]_vars

\* An upload was ingested, a later upload of the same file name failed in its
\* ingestion: the chunks of the first are served, its file is gone.
C24_Witness ==
    \E r1, r2 \in Uploads :
        /\ r1 # r2
        /\ FileName(r1) = FileName(r2)
        /\ pc[r1] = "done" /\ response[r1].n = MaxChunks
        /\ pc[r2] = "failed" /\ err[r2] \notin {"none", "save"}
        /\ Chunks(r1) \subseteq Range(pre[r2].corpus)
        /\ data_dir = {}

\* C26: the step that rejects a request changes nothing of the engine, of the
\* handlers' locals or of the data directory.  With the RAGSystem built, an
\* upload whose name does not end in .txt in any case is never served: it is
\* rejected with 400, no file of its name is saved and no chunk of it reaches
\* the index or the corpus; an upload whose name ends in .txt or .TXT is never
\* rejected; a chat whose query is empty or blank is rejected with 400 without
\* a chain being fetched, any other chat is never rejected.  With the
\* RAGSystem not built every request is rejected with 503 and the engine and
\* the data directory stay as they were.
C26_RejectedLeaveEngineUntouched ==
    [][/\ \A r \in Reqs :
             (pc[r] # "rejected" /\ pc'[r] = "rejected") =>
                 /\ pc[r] = "pending"
                 /\ UNCHANGED <<engine, locals, data_dir, response, history>>
       /\ \A r \in Uploads :
             /\ (initialized' /\ ext'[r] \notin {"txt", "TXT"}) =>
                   /\ pc'[r] \in {"pending", "rejected"}
                   /\ pc'[r] = "rejected" => err'[r] = "400"
                   /\ FileName(r)' \notin data_dir'
                   /\ \A c \in vector_index' \cup Range(all_docs_in_memory') : c[1] # r
                   /\ split_docs'[r] = <<>>
             /\ (initialized' /\ ext'[r] \in {"txt", "TXT"}) => pc'[r] # "rejected"
       /\ \A q \in Chats :
             /\ (initialized' /\ query'[q] \in {"", " "}) =>
                   /\ pc'[q] \in {"pending", "rejected"}
                   /\ pc'[q] = "rejected" => err'[q] = "400"
                   /\ qchain'[q] = 0
                   /\ response'[q] = NoResponse
             /\ (initialized' /\ query'[q] \notin {"", " "}) => pc'[q] # "rejected"
       /\ ~initialized' =>
             /\ \A r \in Reqs :
                   /\ pc'[r] \in {"pending", "rejected"}
                   /\ pc'[r] = "rejected" => err'[r] = "503"
             /\ vector_index' = {} /\ all_docs_in_memory' = <<>>
             /\ Len(chain_objs') = 1 /\ Len(bm25_objs') = 0
             /\ data_dir' = {}
             /\ \A q \in Chats : qchain'[q] = 0]_vars

\* An upload named .TXT was ingested; an upload named .pdf and a blank chat
\* were rejected with 400 after it, and what it ingested is still there.
C26_Witness ==
    \E r1, r2 \in Uploads : \E q \in Chats :
        /\ initialized
        /\ ext[r1] = "TXT" /\ pc[r1] = "done" /\ response[r1].n = MaxChunks
        /\ ext[r2] = "pdf" /\ pc[r2] = "rejected" /\ err[r2] = "400"
        /\ query[q] = " " /\ pc[q] = "rejected" /\ err[q] = "400"
        /\ Chunks(r1) \subseteq vector_index
        /\ data_dir = {FileName(r1)}
====
